---- MODULE Spec2Model ----
(***************************************************************************)
(* Model of src/app.py: the "Fetch Images" handler of the Image Downloader *)
(* page and the three functions it sequences,                              *)
(*   fetch_image_urls        (paginated search of the photo API),          *)
(*   filter_images           (per-image similarity scoring),               *)
(*   download_images_as_zip  (per-image download into an archive).         *)
(* Every HTTP request is one step; its outcome is chosen by the            *)
(* environment.  A photo is identified by its rank in the API's result     *)
(* list; a URL is the pair <<size variant, photo rank>>.                   *)
(***************************************************************************)
EXTENDS Integers, Sequences, FiniteSets, TLC

VARIABLES
    pc,             \* position of the script / of the running function
    query,          \* sidebar text input
    num_images,     \* sidebar number input
    resolution,     \* sidebar select box
    ai_filter,      \* sidebar check box
    total,          \* environment: number of photos the API has for the query
    net,            \* environment: "any" (every outcome possible) or "nominal"
    page,           \* fetch_image_urls: loop variable
    urls,           \* fetch_image_urls: local list image_urls
    served,         \* history: photo ranks listed by the API, in listing order
    fetched,        \* value returned by fetch_image_urls
    image_urls,     \* handler: the list image_urls
    filtered_urls,  \* filter_images: local list
    i,              \* 0-based loop index of filter_images / download_images_as_zip
    zip_file,       \* entries written to the archive, in writing order
    shown,          \* URLs handed to st.image
    errors,         \* st.error / st.sidebar.error messages, in order
    log             \* history: every HTTP request issued, with its outcome

vars == <<pc, query, num_images, resolution, ai_filter, total, net, page, urls,
          served, fetched, image_urls, filtered_urls, i, zip_file, shown,
          errors, log>>

----------------------------------------------------------------------------
(* Program constants *)

PerPage == 80

MAX_DISPLAY == 20

MinNumImages == 1

MaxNumImages == 1000

\* similarity threshold 0.2, in hundredths
Threshold == 20

Resolutions == {"640x480", "1280x720", "1920x1080", "Original"}

(* Bounds of the model *)

\* largest num_images passed to fetch_image_urls when it is checked on its own
MaxNum == 161

\* largest result list in a run of the whole handler with net = "any"
MaxTotal == 3

\* photos the API holds beyond num_images when fetch_image_urls is checked alone
MaxExtra == 1

----------------------------------------------------------------------------
(* Sequences *)

Min(a, b) == IF a < b THEN a ELSE b

Range(s) == {s[k] : k \in 1..Len(s)}

\* Python s[:n] for n >= 0
Take(s, n) == SubSeq(s, 1, Min(n, Len(s)))

\* the ranks from+1 .. from+n of the API's result list that exist
Slice(from, n) ==
    LET last == Min(from + n, total)
    IN  IF last <= from THEN <<>> ELSE [k \in 1..(last - from) |-> from + k]

----------------------------------------------------------------------------
(* fetch_image_urls *)

\* (num_images // per_page) + 1
Pages(n) == (n \div PerPage) + 1

\* the "per_page" request parameter
PerPageParam(n, have) == Min(PerPage, n - have)

\* VariantOf with the branches of "1280x720" and "1920x1080" exchanged
VariantOf_Swapped(res) ==
    IF res = "640x480" THEN "small"
    ELSE IF res = "1280x720" THEN "large"
    ELSE IF res = "1920x1080" THEN "medium"
    ELSE "original"

\* the src variant selected by the if/elif chain
VariantOf(res) ==
    IF res = "640x480" THEN "small"
    ELSE IF res = "1280x720" THEN "medium"
    ELSE IF res = "1920x1080" THEN "large"
    ELSE "original"

\* img["src"][variant]
SrcUrl(variant, photo) == <<variant, photo>>

\* the inner loop over results["photos"]
AppendPhotos(acc, photos, res) ==
    acc \o [k \in 1..Len(photos) |-> SrcUrl(VariantOf(res), photos[k])]

\* FetchResult without the slice
FetchResult_Unsliced(acc, n) == acc

\* image_urls[:num_images]
FetchResult(acc, n) == Take(acc, n)

\* EnoughUrls with the break removed
EnoughUrls_Never(acc, n) == FALSE

\* the break test after a page
EnoughUrls(acc, n) == Len(acc) >= n

\* placeholder in log entries that carry no URL
NoUrl == <<"none", 0>>

\* log entry of a search request: its parameters, the number of URLs held when
\* it was issued, the status and the number of photos of the response
SearchRec(pg, pp, have, st, cnt) ==
    [kind |-> "search", page |-> pg, per_page |-> pp, have |-> have,
     url |-> NoUrl, idx |-> 0, result |-> "ok", status |-> st, count |-> cnt,
     sim |-> 0]

\* log entry of an image download by filter_images ("score") or
\* download_images_as_zip ("zip"): URL, loop index, how the try block ended,
\* response status (0: none) and similarity score
ImageRec(k, u, ix, res, st, s) ==
    [kind |-> k, page |-> 0, per_page |-> 0, have |-> 0,
     url |-> u, idx |-> ix, result |-> res, status |-> st, count |-> 0,
     sim |-> s]

\* photo counts the API may answer a request for pp photos with
Counts(pp) ==
    IF net = "nominal" THEN {pp}
    ELSE {c \in {0, 1, pp - 1, pp, pp + 1} : c >= 0}

\* statuses other than 200 the search API may answer with
FailStatuses == {429, 500}

\* one iteration of the page loop whose request is answered 200
FetchPageOk ==
    /\ pc = "fetch_loop"
    /\ page <= Pages(num_images)
    /\ LET pp == PerPageParam(num_images, Len(urls))
       IN \E c \in Counts(pp) :
            LET photos == Slice((page - 1) * pp, c)
                acc    == AppendPhotos(urls, photos, resolution)
            IN  /\ log' = Append(log, SearchRec(page, pp, Len(urls), 200, Len(photos)))
                /\ served' = served \o photos
                /\ urls' = acc
                /\ IF EnoughUrls(acc, num_images) \/ page = Pages(num_images)
                     THEN /\ pc' = "fetch_ret"
                          /\ page' = page
                     ELSE /\ pc' = "fetch_loop"
                          /\ page' = page + 1
    /\ UNCHANGED <<query, num_images, resolution, ai_filter, total, net, fetched,
                   image_urls, filtered_urls, i, zip_file, shown, errors>>

\* FetchPageFail returning the URLs collected so far instead of []
FetchPageFail_KeepsUrls ==
    /\ pc = "fetch_loop"
    /\ page <= Pages(num_images)
    /\ net = "any"
    /\ \E st \in FailStatuses :
         /\ log' = Append(log, SearchRec(page, PerPageParam(num_images, Len(urls)),
                                         Len(urls), st, 0))
         /\ errors' = Append(errors, <<"Failed to fetch images", st>>)
    /\ fetched' = Take(urls, num_images)
    /\ pc' = "fetched"
    /\ UNCHANGED <<query, num_images, resolution, ai_filter, total, net, page, urls,
                   served, image_urls, filtered_urls, i, zip_file, shown>>

\* one iteration of the page loop whose request is answered with another status
FetchPageFail ==
    /\ pc = "fetch_loop"
    /\ page <= Pages(num_images)
    /\ net = "any"
    /\ \E st \in FailStatuses :
         /\ log' = Append(log, SearchRec(page, PerPageParam(num_images, Len(urls)),
                                         Len(urls), st, 0))
         /\ errors' = Append(errors, <<"Failed to fetch images", st>>)
    /\ fetched' = <<>>
    /\ pc' = "fetched"
    /\ UNCHANGED <<query, num_images, resolution, ai_filter, total, net, page, urls,
                   served, image_urls, filtered_urls, i, zip_file, shown>>

\* return image_urls[:num_images]
FetchReturn ==
    /\ pc = "fetch_ret"
    /\ fetched' = FetchResult(urls, num_images)
    /\ pc' = "fetched"
    /\ UNCHANGED <<query, num_images, resolution, ai_filter, total, net, page, urls,
                   served, image_urls, filtered_urls, i, zip_file, shown, errors, log>>

\* fetch_image_urls called on its own, with any resolution string
InitFetch ==
    /\ pc = "fetch_loop"
    /\ query = "cat"
    /\ num_images \in MinNumImages..Min(MaxNum, MaxNumImages)
    /\ resolution \in Resolutions \cup {"800x600"}
    /\ ai_filter = FALSE
    /\ total \in num_images..(num_images + MaxExtra)
    /\ net = "any"
    /\ page = 1
    /\ urls = <<>>
    /\ served = <<>>
    /\ fetched = <<>>
    /\ image_urls = <<>>
    /\ filtered_urls = <<>>
    /\ i = 0
    /\ zip_file = <<>>
    /\ shown = <<>>
    /\ errors = <<>>
    /\ log = <<>>

NextFetch == FetchPageOk \/ FetchPageFail \/ FetchReturn

SpecFetch == InitFetch /\ [][NextFetch]_vars

----------------------------------------------------------------------------
(* filter_images *)

\* similarity > 0.2
Similar(s) == s > Threshold

\* FilterAppend putting the best match first instead of appending
FilterAppend_Prepend(acc, u, s) == IF Similar(s) THEN <<u>> \o acc ELSE acc

\* filtered_urls.append(url) under the similarity test
FilterAppend(acc, u, s) == IF Similar(s) THEN Append(acc, u) ELSE acc

\* similarity scores the model may give an image
Sims(u) ==
    IF net = "nominal" THEN {Threshold + (u[2] % 2)}
    ELSE {Threshold, Threshold + 1}

\* ways the try block of filter_images may raise
FilterFailures == {"request raised", "cannot identify image"}

\* one iteration of the loop whose try block completes
FilterScore ==
    /\ pc = "filter_loop"
    /\ i < Len(image_urls)
    /\ LET u == image_urls[i + 1]
       IN \E s \in Sims(u) :
            /\ log' = Append(log, ImageRec("score", u, i, "ok", 200, s))
            /\ filtered_urls' = FilterAppend(filtered_urls, u, s)
    /\ i' = i + 1
    /\ UNCHANGED <<pc, query, num_images, resolution, ai_filter, total, net, page, urls,
                   served, fetched, image_urls, zip_file, shown, errors>>

\* FilterError with the try around the loop instead of inside it
FilterError_Aborts ==
    /\ pc = "filter_loop"
    /\ i < Len(image_urls)
    /\ net = "any"
    /\ \E e \in FilterFailures :
         /\ log' = Append(log, ImageRec("score", image_urls[i + 1], i, e, 0, 0))
         /\ errors' = Append(errors, <<"Error processing image", i>>)
    /\ i' = Len(image_urls)
    /\ UNCHANGED <<pc, query, num_images, resolution, ai_filter, total, net, page, urls,
                   served, fetched, image_urls, filtered_urls, zip_file, shown>>

\* one iteration of the loop whose try block raises
FilterError ==
    /\ pc = "filter_loop"
    /\ i < Len(image_urls)
    /\ net = "any"
    /\ \E e \in FilterFailures :
         /\ log' = Append(log, ImageRec("score", image_urls[i + 1], i, e, 0, 0))
         /\ errors' = Append(errors, <<"Error processing image", i>>)
    /\ i' = i + 1
    /\ UNCHANGED <<pc, query, num_images, resolution, ai_filter, total, net, page, urls,
                   served, fetched, image_urls, filtered_urls, zip_file, shown>>

\* FilterReturn with the handler dropping the returned list
FilterReturn_Unfiltered ==
    /\ pc = "filter_loop"
    /\ i = Len(image_urls)
    /\ pc' = "check"
    /\ UNCHANGED <<query, num_images, resolution, ai_filter, total, net, page, urls,
                   served, fetched, image_urls, filtered_urls, i, zip_file, shown,
                   errors, log>>

\* return filtered_urls, assigned to image_urls by the handler
FilterReturn ==
    /\ pc = "filter_loop"
    /\ i = Len(image_urls)
    /\ image_urls' = filtered_urls
    /\ pc' = "check"
    /\ UNCHANGED <<query, num_images, resolution, ai_filter, total, net, page, urls,
                   served, fetched, filtered_urls, i, zip_file, shown, errors, log>>

----------------------------------------------------------------------------
(* download_images_as_zip *)

\* f"image_{i+1}.jpg"
EntryName(k) == <<"image_", k + 1, ".jpg">>

\* response.content of a download of u
Body(u) == <<"bytes of", u>>

\* ZipWrite without the status test
ZipWrite_AnyStatus(z, k, u, st) == Append(z, [name |-> EntryName(k), data |-> Body(u)])

\* zip_file.writestr(name, data) under the status test
ZipWrite(z, k, u, st) ==
    IF st = 200 THEN Append(z, [name |-> EntryName(k), data |-> Body(u)]) ELSE z

\* statuses an image download may be answered with
ZipStatuses == IF net = "nominal" THEN {200} ELSE {200, 404}

\* one iteration of the loop whose try block completes
ZipResponse ==
    /\ pc = "zip_loop"
    /\ i < Len(image_urls)
    /\ LET u == image_urls[i + 1]
       IN \E st \in ZipStatuses :
            /\ log' = Append(log, ImageRec("zip", u, i, "ok", st, 0))
            /\ zip_file' = ZipWrite(zip_file, i, u, st)
    /\ i' = i + 1
    /\ UNCHANGED <<pc, query, num_images, resolution, ai_filter, total, net, page, urls,
                   served, fetched, image_urls, filtered_urls, shown, errors>>

\* one iteration of the loop whose try block raises
ZipError ==
    /\ pc = "zip_loop"
    /\ i < Len(image_urls)
    /\ net = "any"
    /\ log' = Append(log, ImageRec("zip", image_urls[i + 1], i, "request raised", 0, 0))
    /\ errors' = Append(errors, <<"Error downloading image", i + 1>>)
    /\ i' = i + 1
    /\ UNCHANGED <<pc, query, num_images, resolution, ai_filter, total, net, page, urls,
                   served, fetched, image_urls, filtered_urls, zip_file, shown>>

\* return zip_buffer, handed to st.download_button
ZipReturn ==
    /\ pc = "zip_loop"
    /\ i = Len(image_urls)
    /\ pc' = "done"
    /\ UNCHANGED <<query, num_images, resolution, ai_filter, total, net, page, urls,
                   served, fetched, image_urls, filtered_urls, i, zip_file, shown,
                   errors, log>>

----------------------------------------------------------------------------
(* The "Fetch Images" button *)

\* image_urls[:MAX_DISPLAY]
Preview(us) == Take(us, MAX_DISPLAY)

\* button pressed with an empty keyword
FetchButtonNoKeyword ==
    /\ pc = "idle"
    /\ query = ""
    /\ errors' = Append(errors, <<"Please enter a keyword.", 0>>)
    /\ pc' = "done"
    /\ UNCHANGED <<query, num_images, resolution, ai_filter, total, net, page, urls,
                   served, fetched, image_urls, filtered_urls, i, zip_file, shown, log>>

\* button pressed with a keyword: fetch_image_urls is entered
FetchButton ==
    /\ pc = "idle"
    /\ query # ""
    /\ urls' = <<>>
    /\ page' = 1
    /\ pc' = "fetch_loop"
    /\ UNCHANGED <<query, num_images, resolution, ai_filter, total, net, served,
                   fetched, image_urls, filtered_urls, i, zip_file, shown, errors, log>>

\* image_urls = fetch_image_urls(...); ai_filter set: filter_images is entered
StartFilter ==
    /\ pc = "fetched"
    /\ ai_filter
    /\ image_urls' = fetched
    /\ filtered_urls' = <<>>
    /\ i' = 0
    /\ pc' = "filter_loop"
    /\ UNCHANGED <<query, num_images, resolution, ai_filter, total, net, page, urls,
                   served, fetched, zip_file, shown, errors, log>>

\* image_urls = fetch_image_urls(...); ai_filter clear
SkipFilter ==
    /\ pc = "fetched"
    /\ ~ai_filter
    /\ image_urls' = fetched
    /\ pc' = "check"
    /\ UNCHANGED <<query, num_images, resolution, ai_filter, total, net, page, urls,
                   served, fetched, filtered_urls, i, zip_file, shown, errors, log>>

\* "if image_urls:" taken: thumbnails, then download_images_as_zip is entered
ShowImages ==
    /\ pc = "check"
    /\ image_urls # <<>>
    /\ shown' = Preview(image_urls)
    /\ zip_file' = <<>>
    /\ i' = 0
    /\ pc' = "zip_loop"
    /\ UNCHANGED <<query, num_images, resolution, ai_filter, total, net, page, urls,
                   served, fetched, image_urls, filtered_urls, errors, log>>

\* "if image_urls:" not taken
NothingToShow ==
    /\ pc = "check"
    /\ image_urls = <<>>
    /\ pc' = "done"
    /\ UNCHANGED <<query, num_images, resolution, ai_filter, total, net, page, urls,
                   served, fetched, image_urls, filtered_urls, i, zip_file, shown,
                   errors, log>>

\* num_images of a run whose result list is longer than the preview
LongNum == MAX_DISPLAY + 1

\* the page as rendered before the button is pressed
Init ==
    /\ pc = "idle"
    /\ query \in {"", "cat"}
    /\ resolution \in Resolutions
    /\ ai_filter \in BOOLEAN
    /\ \/ /\ net = "any"
          /\ num_images \in (MinNumImages..MaxTotal) \cup {PerPage}
          /\ total \in 0..MaxTotal
       \/ /\ net = "nominal"
          /\ num_images = LongNum
          /\ total = LongNum
    /\ page = 1
    /\ urls = <<>>
    /\ served = <<>>
    /\ fetched = <<>>
    /\ image_urls = <<>>
    /\ filtered_urls = <<>>
    /\ i = 0
    /\ zip_file = <<>>
    /\ shown = <<>>
    /\ errors = <<>>
    /\ log = <<>>

Next ==
    \/ FetchButtonNoKeyword
    \/ FetchButton
    \/ FetchPageOk
    \/ FetchPageFail
    \/ FetchReturn
    \/ StartFilter
    \/ SkipFilter
    \/ FilterScore
    \/ FilterError
    \/ FilterReturn
    \/ ShowImages
    \/ NothingToShow
    \/ ZipResponse
    \/ ZipError
    \/ ZipReturn

Spec == Init /\ [][Next]_vars

----------------------------------------------------------------------------
(* Properties of fetch_image_urls *)

\* the requests of one kind, in the order they were issued
LogOf(kind) == SelectSeq(log, LAMBDA r : r.kind = kind)

SearchLog == LogOf("search")

ScoreLog == LogOf("score")

ZipLog == LogOf("zip")

\* fetch_image_urls has returned
FetchDone == query # "" /\ pc \notin {"idle", "fetch_loop", "fetch_ret"}

\* positions of the search requests answered with a status other than 200
FailedSearches == {k \in 1..Len(SearchLog) : SearchLog[k].status # 200}

\* the errors reported by fetch_image_urls
FetchErrors == SelectSeq(errors, LAMBDA e : e[1] = "Failed to fetch images")

\* the size variant the resolution argument stands for
ClaimedVariant(res) ==
    CASE res = "640x480" -> "small"
      [] res = "1280x720" -> "medium"
      [] res = "1920x1080" -> "large"
      [] OTHER -> "original"

RECURSIVE CountSum(_, _)
\* number of photos in the responses to the first k requests of sl
CountSum(sl, k) == IF k = 0 THEN 0 ELSE CountSum(sl, k - 1) + sl[k].count

RECURSIVE ContractList(_, _)
\* what an API honouring the page contract lists for the first k requests of sl:
\* request (page, per_page) yields items (page-1)*per_page+1 .. page*per_page
ContractList(sl, k) ==
    IF k = 0 THEN <<>>
    ELSE ContractList(sl, k - 1)
           \o [j \in 1..sl[k].per_page |-> (sl[k].page - 1) * sl[k].per_page + j]

\* every search request succeeded and was answered as the page contract says
HonestApi ==
    /\ FailedSearches = {}
    /\ served = ContractList(SearchLog, Len(SearchLog))

\* every search request was answered 200 with exactly per_page photos
ExactPages ==
    \A k \in 1..Len(SearchLog) :
        SearchLog[k].status = 200 /\ SearchLog[k].count = SearchLog[k].per_page

\* C3: fetch_image_urls is all-or-nothing on a search failure: a request
\* answered with a status other than 200 is the last request issued, is
\* reported as exactly one error, and makes the function return the empty
\* list whatever was collected before; a non-empty list is returned only if
\* every request was answered 200.
C3_AllOrNothing ==
    /\ \A k \in FailedSearches : k = Len(SearchLog)
    /\ FailedSearches # {} =>
          /\ FetchDone
          /\ fetched = <<>>
          /\ Len(FetchErrors) = 1
    /\ FailedSearches = {} => FetchErrors = <<>>
    /\ (FetchDone /\ fetched # <<>>) =>
          \A k \in 1..Len(SearchLog) : SearchLog[k].status = 200

\* C3 witness: a page was collected, the next request failed, [] was returned
C3_Witness ==
    /\ pc = "fetched"
    /\ Len(SearchLog) = 2
    /\ urls # <<>>
    /\ FailedSearches = {2}
    /\ fetched = <<>>

\* C6: when every search request succeeds and the API serves a fixed list of
\* at least num_images photos under the page contract, fetch_image_urls
\* returns exactly the first num_images photos of the list, in order, none
\* repeated.
C6_ReturnsFirstPhotos ==
    (FetchDone /\ HonestApi /\ total >= num_images) =>
        fetched = [k \in 1..num_images |-> <<ClaimedVariant(resolution), k>>]

\* C7: fetch_image_urls never returns more URLs than requested, whatever the
\* API answers, and returns exactly num_images URLs when every request is
\* answered 200 with exactly per_page photos.
C7_AtMostRequested ==
    FetchDone =>
        /\ Len(fetched) <= num_images
        /\ ExactPages => Len(fetched) = num_images

\* C7 witness: the API listed more photos than asked for; the result was cut
C7_Witness ==
    /\ pc = "fetched"
    /\ Len(urls) > num_images
    /\ Len(fetched) = num_images
    /\ Len(SearchLog) > 1

\* C8: the k-th search request carries page = k and
\* per_page = min(80, num_images - URLs collected so far), which lies in 1..80;
\* at most (num_images // 80) + 1 requests are issued, and none once
\* num_images URLs have been collected.
C8_PaginationBounded ==
    /\ Len(SearchLog) <= (num_images \div 80) + 1
    /\ \A k \in 1..Len(SearchLog) :
          LET r == SearchLog[k]
          IN  /\ r.page = k
              /\ r.have = CountSum(SearchLog, k - 1)
              /\ r.have < num_images
              /\ r.per_page = Min(80, num_images - r.have)
              /\ r.per_page \in 1..80

\* C8 witness: the API answered with empty pages until the page budget ran out
C8_Witness ==
    /\ pc = "fetched"
    /\ Len(SearchLog) = 3
    /\ FailedSearches = {}
    /\ \A k \in 1..3 : SearchLog[k].count = 0

\* C9: every URL returned by one call is of the size variant selected by the
\* resolution argument alone ("640x480" small, "1280x720" medium, "1920x1080"
\* large, anything else original), and the URLs keep the order in which the
\* API listed the photos within and across pages.
C9_OneVariantInOrder ==
    /\ Len(urls) = Len(served)
    /\ \A k \in 1..Len(urls) : urls[k] = <<ClaimedVariant(resolution), served[k]>>
    /\ FetchDone =>
          \A k \in 1..Len(fetched) : fetched[k][1] = ClaimedVariant(resolution)
    /\ (FetchDone /\ FailedSearches = {}) =>
          /\ Len(fetched) = Min(num_images, Len(served))
          /\ \A k \in 1..Len(fetched) :
                fetched[k] = <<ClaimedVariant(resolution), served[k]>>

\* C9 witness: a result spanning two pages for a resolution selecting "large"
C9_Witness ==
    /\ pc = "fetched"
    /\ resolution = "1920x1080"
    /\ Len(SearchLog) = 2
    /\ Len(fetched) > 80

----------------------------------------------------------------------------
(* Properties of the handler, filter_images and download_images_as_zip *)

\* filter_images has returned to the handler
FilterReturned ==
    /\ ai_filter
    /\ pc \in {"check", "zip_loop"} \/ (pc = "done" /\ query # "")

\* download_images_as_zip has returned to the handler
ZipReturned == pc = "done" /\ query # "" /\ image_urls # <<>>

\* the try block of a scoring iteration completed with similarity above 0.2
Passed(r) == r.result = "ok" /\ r.sim > 20

\* the try block of a zip iteration completed with status 200
Downloaded(r) == r.result = "ok" /\ r.status = 200

\* the URLs of a sequence of log entries
UrlsOf(rs) == [k \in 1..Len(rs) |-> rs[k].url]

\* number of positions of s holding x
Occurrences(s, x) == Cardinality({k \in 1..Len(s) : s[k] = x})

\* a is a reordering of b
IsPermutation(a, b) ==
    /\ Len(a) = Len(b)
    /\ \A x \in Range(a) \cup Range(b) : Occurrences(a, x) = Occurrences(b, x)

RECURSIVE IsSubsequence(_, _)
\* a is obtained from b by deleting elements
IsSubsequence(a, b) ==
    IF a = <<>> THEN TRUE
    ELSE IF b = <<>> THEN FALSE
    ELSE IF Head(a) = Head(b) THEN IsSubsequence(Tail(a), Tail(b))
    ELSE IsSubsequence(a, Tail(b))

\* C1: the archive returned by download_images_as_zip has an entry
\* image_{i+1}.jpg holding the body of URL i exactly for the positions i whose
\* download returned 200 without raising; it has no other entry, no name
\* twice, and at most as many entries as input URLs; in the Fetch flow the
\* input is the whole result list, not the previewed prefix.
C1_ZipPacksSelection ==
    ZipReturned =>
        /\ image_urls = (IF ai_filter THEN filtered_urls ELSE fetched)
        /\ UrlsOf(ZipLog) = image_urls
        /\ \A k \in 0..(Len(image_urls) - 1) :
              Downloaded(ZipLog[k + 1]) <=>
                  \E e \in 1..Len(zip_file) :
                      zip_file[e] = [name |-> <<"image_", k + 1, ".jpg">>,
                                     data |-> <<"bytes of", image_urls[k + 1]>>]
        /\ \A e \in 1..Len(zip_file) :
              \E k \in 0..(Len(image_urls) - 1) :
                  /\ zip_file[e].name = <<"image_", k + 1, ".jpg">>
                  /\ Downloaded(ZipLog[k + 1])
        /\ \A e, f \in 1..Len(zip_file) :
              zip_file[e].name = zip_file[f].name => e = f
        /\ Len(zip_file) <= Len(image_urls)

\* C1 witness: three URLs, the second download failed, entries 1 and 3 written
C1_Witness ==
    /\ ZipReturned
    /\ Len(image_urls) = 3
    /\ ~Downloaded(ZipLog[2])
    /\ Len(zip_file) = 2
    /\ zip_file[2].name = <<"image_", 3, ".jpg">>

\* a run whose archive holds more images than the preview shows
C1_BeyondPreview ==
    /\ ZipReturned
    /\ Len(shown) = MAX_DISPLAY
    /\ Len(zip_file) > MAX_DISPLAY

\* C2 as stated: the list produced by filter_images is a reordering of the
\* list returned by fetch_image_urls (nothing dropped, nothing added).
C2_FilterIsPermutation == FilterReturned => IsPermutation(image_urls, fetched)

\* C2 as amended: the list produced by filter_images is the list returned by
\* fetch_image_urls with some URLs deleted: nothing is added and the kept URLs
\* stay in their original order.
C2_FilterIsSubsequence ==
    /\ pc = "filter_loop" => IsSubsequence(filtered_urls, fetched)
    /\ FilterReturned =>
          /\ IsSubsequence(image_urls, fetched)
          /\ Range(image_urls) \subseteq Range(fetched)
          /\ Len(image_urls) <= Len(fetched)

\* C2 witness: three URLs fetched, the middle one dropped by the filter
C2_Witness ==
    /\ FilterReturned
    /\ Len(fetched) = 3
    /\ image_urls = <<fetched[1], fetched[3]>>

\* C4: filter_images and download_images_as_zip visit every URL of their list
\* exactly once in list order whatever fails, return normally, and include
\* URL j in their output according to the outcome of URL j alone.
C4_FailuresIsolated ==
    /\ Len(ScoreLog) <= Len(fetched)
    /\ \A k \in 1..Len(ScoreLog) :
          ScoreLog[k].idx = k - 1 /\ ScoreLog[k].url = fetched[k]
    /\ pc = "filter_loop" => Len(ScoreLog) = i
    /\ ai_filter => filtered_urls = UrlsOf(SelectSeq(ScoreLog, Passed))
    /\ FilterReturned =>
          /\ Len(ScoreLog) = Len(fetched)
          /\ image_urls = filtered_urls
    /\ ZipLog # <<>> => pc \in {"zip_loop", "done"}
    /\ pc \in {"zip_loop", "done"} =>
          /\ Len(ZipLog) <= Len(image_urls)
          /\ \A k \in 1..Len(ZipLog) :
                ZipLog[k].idx = k - 1 /\ ZipLog[k].url = image_urls[k]
          /\ pc = "zip_loop" => Len(ZipLog) = i
          /\ LET ok == SelectSeq(ZipLog, Downloaded)
             IN  zip_file = [k \in 1..Len(ok) |->
                               [name |-> <<"image_", ok[k].idx + 1, ".jpg">>,
                                data |-> <<"bytes of", ok[k].url>>]]
    /\ ZipReturned => Len(ZipLog) = Len(image_urls)

\* C4 witness: the first URL failed in the filter, the first URL that passed
\* failed in the zip step, and later URLs were still scored and packed
C4_Witness ==
    /\ ZipReturned
    /\ ai_filter
    /\ Len(fetched) = 3
    /\ ScoreLog[1].result # "ok"
    /\ image_urls = <<fetched[2], fetched[3]>>
    /\ ZipLog[1].result # "ok"
    /\ Len(zip_file) = 1

\* phase of a request: search, then model scoring, then zip
Phase(r) == CASE r.kind = "search" -> 1 [] r.kind = "score" -> 2 [] OTHER -> 3

\* C5: in one Fetch run with a keyword every search request precedes every
\* scoring download, which precedes every zip download; with AI filtering
\* the zip step requests only URLs that passed the filter, without it no
\* scoring download is made and the zip step requests every fetched URL; no
\* image URL is requested that the search step did not return.
C5_ServicesInSequence ==
    /\ \A a, b \in 1..Len(log) : a < b => Phase(log[a]) <= Phase(log[b])
    /\ ai_filter =>
          Range(UrlsOf(ZipLog)) \subseteq Range(UrlsOf(SelectSeq(ScoreLog, Passed)))
    /\ ~ai_filter =>
          /\ ScoreLog = <<>>
          /\ (pc = "done" /\ query # "") => UrlsOf(ZipLog) = fetched
    /\ \A k \in 1..Len(log) :
          log[k].kind # "search" =>
              /\ FetchDone
              /\ log[k].url \in Range(fetched)

\* C5 witness: two searches, three scorings, two zip downloads, in that order
C5_Witness ==
    /\ pc = "done"
    /\ ai_filter
    /\ Len(SearchLog) = 2
    /\ Len(ScoreLog) = 3
    /\ Len(ZipLog) = 2

====
